---- MODULE Spec2Model ----
(***************************************************************************)
(* The semantic search cache of the sports chatbot:                        *)
(*   utils/cache_utils.py  (FAISS index, id -> entry mapping, persistence) *)
(*   utils/web_search.py   (get_search_results_with_cache, the resolver)   *)
(*   utils/embedding_utils.py (get_embedding)                              *)
(*                                                                         *)
(* Floats are fixed point: an embedding component x stands for x / Unit,   *)
(* an inner product s for s / One.  Embeddings have two components, all   *)
(* chosen with an integral L2 norm, so normalize_L2 and the inner product  *)
(* of IndexFlatIP are computed exactly.                                    *)
(***************************************************************************)
EXTENDS Integers, Sequences, FiniteSets, TLC

\* ------------------------------------------------------------- bounds
\* The most vectors the index is allowed to grow to in a run.
MaxRows == 2
\* The most failures of the surroundings in a run that leave the files
\* behind the globals or damaged: failed or interrupted saves and files
\* deleted or damaged behind the program's back.
MaxFaults == 1

\* ------------------------------------------------------------- numbers
\* The fixed-point scale of a vector component, and of an inner product.
Unit == 5 * 5
One == Unit * Unit
\* config.py: CACHE_SIMILARITY_THRESHOLD = 0.96
CACHE_SIMILARITY_THRESHOLD == (96 * One) \div 100
\* config.py: CACHE_DIR
CACHE_DIR == "search_cache_v6_text_commentary"

\* ------------------------------------------------------------- queries
\* A query argument: a str (its characters), None, or a truthy non-str.
StrQ(chars) == [kind |-> "str", chars |-> chars]
NoneQ == [kind |-> "none", chars |-> <<>>]
IntQ == [kind |-> "int", chars |-> <<>>]

TextA == <<"a">>
TextB == <<"b">>
TextC == <<"c">>
Texts == {TextA, TextB, TextC}

RawQueries ==
    {NoneQ, IntQ, StrQ(<<>>), StrQ(<<" ">>),
     StrQ(TextA), StrQ(TextB), StrQ(<<" ">> \o TextC \o <<" ">>)}

IsSpace(c) == c = " "

\* str.strip()
RECURSIVE LStrip(_)
LStrip(s) == IF s # <<>> /\ IsSpace(Head(s)) THEN LStrip(Tail(s)) ELSE s
RECURSIVE RStrip(_)
RStrip(s) ==
    IF s # <<>> /\ IsSpace(s[Len(s)]) THEN RStrip(SubSeq(s, 1, Len(s) - 1)) ELSE s
\* A variant of str.strip that strips nothing.
Strip_Nothing(s) == s
Strip(s) == RStrip(LStrip(s))

\* ------------------------------------------------------------- vectors
Dot(u, v) == u[1] * v[1] + u[2] * v[2]
Abs(n) == IF n < 0 THEN -n ELSE n
\* The L2 norm (every vector of the model has an integral one).
Norm(v) == CHOOSE n \in 0..(Abs(v[1]) + Abs(v[2])) : n * n = Dot(v, v)

\* faiss.normalize_L2 on one row: a zero row is left as it is.
normalize_L2(v) ==
    IF Norm(v) = 0 THEN v
    ELSE <<(v[1] * Unit) \div Norm(v), (v[2] * Unit) \div Norm(v)>>

\* What the embedding model returns for a text (not normalized by the
\* gateway): a and b are unit vectors at cosine 0.96 exactly; c has norm
\* 0.2, at cosine 0.6 to a and 0.8 to b.
Embedding(text) ==
    CASE text = TextA -> <<25, 0>>
      [] text = TextB -> <<24, 7>>
      [] OTHER -> <<3, 4>>

\* IndexFlatIP.search(q, 1): the row of the largest inner product, the
\* lowest such row on a tie.  Defined for a non-empty index.
search(vectors, q) ==
    LET best == CHOOSE i \in 1..Len(vectors) :
                    \A j \in 1..Len(vectors) :
                        /\ Dot(vectors[j], q) <= Dot(vectors[i], q)
                        /\ Dot(vectors[j], q) = Dot(vectors[i], q) => i <= j
    IN [I |-> best - 1, D |-> Dot(vectors[best], q)]

\* ------------------------------------------------------------- payloads
\* A dict with the keys the cache reads or writes.  keys is the set of keys
\* present; an absent key holds its default in val.
Keys == {"_cache_status", "error", "Bing Search Results Page",
         "_cached_original_query", "_cache_timestamp"}

Status(tag, score, error) == [tag |-> tag, score |-> score, error |-> error]
NoStatus == Status("", -1, "")

DefaultVal ==
    [k \in Keys |->
        CASE k = "_cache_status" -> NoStatus
          [] k = "_cached_original_query" -> <<>>
          [] k = "_cache_timestamp" -> "t0"
          [] OTHER -> ""]

EmptyDict == [keys |-> {}, val |-> DefaultVal]
DictSet(d, k, v) == [keys |-> d.keys \cup {k}, val |-> [d.val EXCEPT ![k] = v]]
DictPop(d, k) == [keys |-> d.keys \ {k}, val |-> [d.val EXCEPT ![k] = DefaultVal[k]]]
Has(d, k) == k \in d.keys

\* An optional value (None or a value).
None == [some |-> FALSE, v |-> EmptyDict]
Some(d) == [some |-> TRUE, v |-> d]

\* ------------------------------------------------------------- live search
Contents == {"r1", "r2"}
ErrorMsg == "WebDriver initialization failed"

\* _perform_web_search_and_extract: scraped_data starts with a
\* "_cache_status" and gets the page text, or an "error".
LiveSuccess(c) ==
    DictSet(DictSet(EmptyDict, "_cache_status", Status("Live Search Triggered", -1, "")),
            "Bing Search Results Page", c)
LiveError ==
    DictSet(DictSet(EmptyDict, "_cache_status", Status("Live Search Triggered", -1, "")),
            "error", ErrorMsg)
LiveResults == {LiveSuccess(c) : c \in Contents} \cup {LiveError}

\* ------------------------------------------------------------- files
\* normalize_query_for_filename: the sha1 digest of the text, taken as
\* injective.
\* A variant of the hash under which every query collides.
normalize_query_for_filename_Constant(query) == <<"sha1", <<>>>>
normalize_query_for_filename(query) == <<"sha1", query>>
\* os.path.join(CACHE_DIR, f"{query_hash}.json")
PathOf(query) == <<CACHE_DIR, normalize_query_for_filename(query), ".json">>
Paths == {PathOf(t) : t \in Texts}

\* str(k) and int(s) of the mapping file's keys.
Digits == <<"0", "1", "2", "3", "4", "5", "6", "7", "8", "9">>
RECURSIVE IntToStr(_)
IntToStr(n) ==
    IF n < 10 THEN <<Digits[n + 1]>>
    ELSE IntToStr(n \div 10) \o <<Digits[(n % 10) + 1]>>
DigitVal(c) == CHOOSE d \in 0..9 : Digits[d + 1] = c
RECURSIVE StrToInt(_)
StrToInt(s) ==
    IF Len(s) = 1 THEN DigitVal(s[1])
    ELSE 10 * StrToInt(SubSeq(s, 1, Len(s) - 1)) + DigitVal(s[Len(s)])

EmptyMap == [k \in {} |-> <<>>]

AbsentEntry == [state |-> "absent", data |-> EmptyDict]
CorruptEntry == [state |-> "corrupt", data |-> EmptyDict]
OkEntry(d) == [state |-> "ok", data |-> d]

AbsentIndexFile == [state |-> "absent", vectors |-> <<>>]
CorruptIndexFile == [state |-> "corrupt", vectors |-> <<>>]
OkIndexFile(vs) == [state |-> "ok", vectors |-> vs]

AbsentMappingFile == [state |-> "absent", next_id |-> 0, mapping |-> EmptyMap]
CorruptMappingFile == [state |-> "corrupt", next_id |-> 0, mapping |-> EmptyMap]
OkMappingFile(n, m) == [state |-> "ok", next_id |-> n, mapping |-> m]

\* ------------------------------------------------------------- state
VARIABLES
    faiss_index,        \* [loaded, vectors]: None, or the rows of the index
    index_id_to_data,   \* row id -> <<original query, entry file path>>
    next_faiss_id,
    indexFile,          \* CACHE_INDEX_FILE
    mappingFile,        \* CACHE_MAPPING_FILE
    entryFiles,         \* path -> the entry file
    faults,             \* failures of the surroundings so far
    last,               \* what the last call did (observation only)
    threads,            \* the calls of add_to_cache in flight, one per thread
    chat,               \* previous/streamlit_app.py: "chat" in st.session_state
    initialized_next_faiss_id,  \* previous/streamlit_app.py: the int of the
                        \* tuple cached by initialize_chatbot_resources
    legacy              \* a process of previous/streamlit_app.py run beside
                        \* the modular one: its globals, its files, its last path

memVars == <<faiss_index, index_id_to_data, next_faiss_id>>
diskVars == <<indexFile, mappingFile, entryFiles>>
\* What only the concurrent calls, the legacy script and the side-by-side
\* run use.
sessionVars == <<threads, chat, initialized_next_faiss_id, legacy>>
vars == <<faiss_index, index_id_to_data, next_faiss_id,
          indexFile, mappingFile, entryFiles, faults, last,
          threads, chat, initialized_next_faiss_id, legacy>>

\* The module globals as one value, and the files as one value.
MemOf(ix, map, nxt) == [index |-> ix, map |-> map, next |-> nxt]
Mem == MemOf(faiss_index, index_id_to_data, next_faiss_id)
DiskOf(ixf, mf, ef) == [idx |-> ixf, map |-> mf, entries |-> ef]
Disk == DiskOf(indexFile, mappingFile, entryFiles)

NoIndex == [loaded |-> FALSE, vectors |-> <<>>]
IndexOf(vs) == [loaded |-> TRUE, vectors |-> vs]
\* cache_utils.py lines 14-16
FreshMem == MemOf(NoIndex, EmptyMap, 0)
ntotal(ix) == Len(ix.vectors)
EmptyDisk == DiskOf(AbsentIndexFile, AbsentMappingFile, [p \in Paths |-> AbsentEntry])

\* The threads that can be inside get_search_results_with_cache at once, and
\* a thread that is in no call.
Threads == {1, 2}
IdleThread == [pc |-> "idle", query |-> <<>>, qv |-> <<0, 0>>, current_id |-> -1,
               raced |-> FALSE]
NoThreads == [t \in Threads |-> IdleThread]
\* A process of the legacy file: its globals, its cache directory and the
\* path its last call took.
LegacyProcess(mem, disk, path) == [mem |-> mem, disk |-> disk, path |-> path]
\* No legacy process runs beside the modular one.
NoLegacy == LegacyProcess(FreshMem, EmptyDisk, "none")
\* No call in flight, no chat session, nothing cached by Streamlit, nothing
\* run side by side.
NoSession ==
    /\ threads = NoThreads
    /\ chat = FALSE
    /\ initialized_next_faiss_id = 0
    /\ legacy = NoLegacy

\* ------------------------------------------------------------- persistence
\* {str(k): v for k, v in index_id_to_data.items()}
MappingToJson(map) ==
    [s \in {IntToStr(k) : k \in DOMAIN map} |->
        map[CHOOSE k \in DOMAIN map : IntToStr(k) = s]]
\* {int(k): v for k, v in loaded_data.get("mapping", {}).items()}
MappingFromJson(json) ==
    [id \in {StrToInt(s) : s \in DOMAIN json} |->
        json[CHOOSE s \in DOMAIN json : StrToInt(s) = id]]

\* What a save does with its two writes: both succeed; makedirs or
\* write_index raises and the index file is as before, or is left truncated;
\* the write of the mapping file raises and the mapping file is as before,
\* or is left truncated; or the process dies between the two writes.
SaveOutcomes == {"ok", "index_fail", "index_partial", "mapping_fail", "mapping_partial"}
CrashBetween == "crash_between"

\* A variant of save_faiss_cache that writes the next id as it was before the
\* append.
save_faiss_cache_StaleNextId(mem, disk, sv) ==
    IF mem.index.loaded /\ mem.next > 0 /\ ntotal(mem.index) > 0 /\ sv = "ok"
    THEN [disk EXCEPT !.idx = OkIndexFile(mem.index.vectors),
                      !.map = OkMappingFile(mem.next - 1, MappingToJson(mem.map))]
    ELSE disk
\* save_faiss_cache: the files after it.
\* A variant of save_faiss_cache that writes the mapping file first.
save_faiss_cache_MappingFirst(mem, disk, sv) ==
    IF mem.index.loaded /\ mem.next > 0 /\ ntotal(mem.index) > 0
    THEN CASE sv = "mapping_fail" -> disk
           [] sv = "mapping_partial" -> [disk EXCEPT !.map = CorruptMappingFile]
           [] sv = "index_partial" ->
                [disk EXCEPT !.map = OkMappingFile(mem.next, MappingToJson(mem.map)),
                             !.idx = CorruptIndexFile]
           [] sv = "ok" ->
                [disk EXCEPT !.idx = OkIndexFile(mem.index.vectors),
                             !.map = OkMappingFile(mem.next, MappingToJson(mem.map))]
           [] OTHER ->
                [disk EXCEPT !.map = OkMappingFile(mem.next, MappingToJson(mem.map))]
    ELSE disk
save_faiss_cache(mem, disk, sv) ==
    IF mem.index.loaded /\ mem.next > 0 /\ ntotal(mem.index) > 0
    THEN CASE sv = "index_fail" -> disk
           [] sv = "index_partial" -> [disk EXCEPT !.idx = CorruptIndexFile]
           [] sv = "mapping_partial" ->
                [disk EXCEPT !.idx = OkIndexFile(mem.index.vectors),
                             !.map = CorruptMappingFile]
           [] sv = "ok" ->
                [disk EXCEPT !.idx = OkIndexFile(mem.index.vectors),
                             !.map = OkMappingFile(mem.next, MappingToJson(mem.map))]
           [] OTHER -> \* "mapping_fail", or the process dies before the second write
                [disk EXCEPT !.idx = OkIndexFile(mem.index.vectors)]
    ELSE disk

\* A variant of load_faiss_cache without the consistency check of lines 68-70.
load_faiss_cache_Unchecked(mem, disk) ==
    IF mem.index.loaded THEN mem
    ELSE IF disk.idx.state = "ok" /\ disk.map.state = "ok"
         THEN MemOf(IndexOf(disk.idx.vectors), MappingFromJson(disk.map.mapping),
                    disk.map.next_id)
         ELSE MemOf(IndexOf(<<>>), EmptyMap, 0)
\* A variant of load_faiss_cache that reads the mapping file first and keeps
\* what it read when the index file is missing or unreadable.
load_faiss_cache_KeepsMapping(mem, disk) ==
    IF mem.index.loaded THEN mem
    ELSE IF disk.map.state = "ok" /\ disk.idx.state # "ok"
         THEN MemOf(IndexOf(<<>>), MappingFromJson(disk.map.mapping), disk.map.next_id)
         ELSE IF /\ disk.idx.state = "ok"
                 /\ disk.map.state = "ok"
                 /\ Len(disk.idx.vectors)
                        = Cardinality(DOMAIN MappingFromJson(disk.map.mapping))
         THEN MemOf(IndexOf(disk.idx.vectors), MappingFromJson(disk.map.mapping),
                    disk.map.next_id)
         ELSE MemOf(IndexOf(<<>>), EmptyMap, 0)
\* A variant of load_faiss_cache without the early return of lines 51-52:
\* it reads the files on every call.
load_faiss_cache_AlwaysReads(mem, disk) ==
    IF /\ disk.idx.state = "ok"
       /\ disk.map.state = "ok"
       /\ Len(disk.idx.vectors) = Cardinality(DOMAIN MappingFromJson(disk.map.mapping))
    THEN MemOf(IndexOf(disk.idx.vectors), MappingFromJson(disk.map.mapping),
               disk.map.next_id)
    ELSE MemOf(IndexOf(<<>>), EmptyMap, 0)
\* load_faiss_cache: the globals after it.
load_faiss_cache(mem, disk) ==
    IF mem.index.loaded THEN mem
    ELSE IF /\ disk.idx.state # "absent" /\ disk.map.state # "absent"
            /\ disk.idx.state = "ok"
            /\ disk.map.state = "ok"
            /\ Len(disk.idx.vectors) = Cardinality(DOMAIN MappingFromJson(disk.map.mapping))
         THEN MemOf(IndexOf(disk.idx.vectors), MappingFromJson(disk.map.mapping),
                    disk.map.next_id)
         ELSE MemOf(IndexOf(<<>>), EmptyMap, 0)

\* Which way a call of load_faiss_cache goes (lines 51-86).
LoadCase(mem, disk) ==
    CASE mem.index.loaded -> "resident"
      [] disk.idx.state = "absent" /\ disk.map.state = "absent" -> "no_files"
      [] disk.idx.state = "absent" -> "index_missing"
      [] disk.map.state = "absent" -> "mapping_missing"
      [] disk.idx.state = "corrupt" -> "index_corrupt"
      [] disk.map.state = "corrupt" -> "mapping_corrupt"
      [] Len(disk.idx.vectors) # Cardinality(DOMAIN MappingFromJson(disk.map.mapping)) ->
            "mismatch"
      [] OTHER -> "accepted"

\* ------------------------------------------------------------- lookup
\* get_from_cache: the globals after it, the payload or None, the score
\* returned, the caller's query_vector after it (normalize_L2 works in place
\* on a view of it), the branch taken, and the row and score the search found.
GetResult(mem, data, score, qv, why, nn, top1) ==
    [mem |-> mem, data |-> data, score |-> score, qv |-> qv, why |-> why, nn |-> nn,
     top1 |-> top1]

\* A variant of the comparison of line 120 that is strict.
MeetsThreshold_Strict(similarity_score) == similarity_score > CACHE_SIMILARITY_THRESHOLD
\* similarity_score >= CACHE_SIMILARITY_THRESHOLD
MeetsThreshold(similarity_score) == similarity_score >= CACHE_SIMILARITY_THRESHOLD

\* A variant of lines 129-131 that pops neither bookkeeping key.
CleanCached_KeepsBookkeeping(cached_data, similarity_score) ==
    DictSet(cached_data, "_cache_status", Status("HIT", similarity_score, ""))
\* Lines 129-131: the two bookkeeping keys popped, the status set.
CleanCached(cached_data, similarity_score) ==
    DictSet(DictPop(DictPop(cached_data, "_cached_original_query"), "_cache_timestamp"),
            "_cache_status", Status("HIT", similarity_score, ""))

\* previous/streamlit_app.py line 496: del index_id_to_data[nearest_neighbor_id]
DropRecord(mem, nearest_neighbor_id) ==
    MemOf(mem.index,
          [k \in DOMAIN mem.map \ {nearest_neighbor_id} |-> mem.map[k]],
          mem.next)
\* A variant of the failed read that deletes the record of the row found,
\* as the legacy file does for a missing entry file.
AfterFailedRead_DropsRecord(mem, nearest_neighbor_id) ==
    DropRecord(mem, nearest_neighbor_id)
\* Lines 124-137: when the entry file is missing, or open or json.load
\* raises, nothing is done to the globals.
AfterFailedRead(mem, nearest_neighbor_id) == mem

get_from_cache(mem0, disk, query, query_vector) ==
    LET mem == load_faiss_cache(mem0, disk) IN
    IF ntotal(mem.index) = 0
    THEN GetResult(mem, None, -1, query_vector, "empty_index", -1, -1)
    ELSE
      LET qv == normalize_L2(query_vector)
          hit == search(mem.index.vectors, qv)
          nearest_neighbor_id == hit.I
          similarity_score == hit.D
      IN IF ~MeetsThreshold(similarity_score)
         THEN GetResult(mem, None, -1, qv, "below_threshold", nearest_neighbor_id,
                        similarity_score)
         ELSE IF nearest_neighbor_id \notin DOMAIN mem.map
         THEN GetResult(mem, None, -1, qv, "not_in_mapping", nearest_neighbor_id,
                        similarity_score)
         ELSE
           LET cached_filepath == mem.map[nearest_neighbor_id][2]
               file == IF cached_filepath \in DOMAIN disk.entries
                       THEN disk.entries[cached_filepath] ELSE AbsentEntry
           IN CASE file.state = "absent" ->
                     GetResult(AfterFailedRead(mem, nearest_neighbor_id), None, -1, qv,
                               "file_missing", nearest_neighbor_id, similarity_score)
                [] file.state = "corrupt" ->
                     GetResult(AfterFailedRead(mem, nearest_neighbor_id), None, -1, qv,
                               "file_unreadable", nearest_neighbor_id, similarity_score)
                [] OTHER ->
                     GetResult(mem,
                         Some(CleanCached(file.data, similarity_score)),
                         similarity_score, qv, "hit", nearest_neighbor_id,
                         similarity_score)

\* ------------------------------------------------------------- append
\* time.time(): the value is stored and never read.
Times == {"t1"}
\* What the write of the entry file does: succeeds; makedirs or open raises
\* and the file is as before; json.dump raises and the file is left truncated.
EntryWriteOutcomes == {"ok", "fail", "partial"}

AddResult(mem, disk, ok, wrote, saved) ==
    [mem |-> mem, disk |-> disk, ok |-> ok, wrote |-> wrote, saved |-> saved]

\* A variant of the append that adds the vector and the next id but no record.
AppendRow_VectorOnly(mem, query, query_vector, cache_filepath) ==
    MemOf(IndexOf(Append(mem.index.vectors, query_vector)), mem.map, mem.next + 1)
\* Lines 161-164: the vector, its record and the next id.
AppendRow(mem, query, query_vector, cache_filepath) ==
    LET current_id == mem.next
    IN MemOf(IndexOf(Append(mem.index.vectors, query_vector)),
             [k \in DOMAIN mem.map \cup {current_id} |->
                 IF k = current_id THEN <<query, cache_filepath>> ELSE mem.map[k]],
             mem.next + 1)

\* A variant of add_to_cache that appends the row before it writes the entry
\* file, so that a failed write leaves the row behind.
add_to_cache_AppendsFirst(mem0, disk0, query, query_vector, result_data, now, ew, sv) ==
    LET mem1 == AppendRow(load_faiss_cache(mem0, disk0), query, query_vector,
                          PathOf(query))
        WriteEntry(file) ==
            [disk0 EXCEPT !.entries =
                [p \in DOMAIN disk0.entries \cup {PathOf(query)} |->
                    IF p = PathOf(query) THEN file ELSE disk0.entries[p]]]
    IN CASE ew = "fail" -> AddResult(mem1, disk0, FALSE, {}, FALSE)
         [] ew = "partial" ->
              AddResult(mem1, WriteEntry(CorruptEntry), FALSE, {PathOf(query)}, FALSE)
         [] OTHER ->
              AddResult(mem1,
                  save_faiss_cache(mem1,
                      WriteEntry(OkEntry(DictSet(DictSet(result_data,
                          "_cached_original_query", query), "_cache_timestamp", now))),
                      sv),
                  TRUE, {PathOf(query)}, TRUE)
\* add_to_cache: the globals and the files after it, its return value, the
\* entry files it opened for writing and whether it called save_faiss_cache.
add_to_cache(mem0, disk0, query, query_vector, result_data, now, ew, sv) ==
    LET mem == load_faiss_cache(mem0, disk0)
        cache_filepath == PathOf(query)
        result_to_save ==
            DictSet(DictSet(result_data, "_cached_original_query", query),
                    "_cache_timestamp", now)
        WriteEntry(file) ==
            [disk0 EXCEPT !.entries =
                [p \in DOMAIN disk0.entries \cup {cache_filepath} |->
                    IF p = cache_filepath THEN file ELSE disk0.entries[p]]]
    IN CASE ew = "fail" -> AddResult(mem, disk0, FALSE, {}, FALSE)
         [] ew = "partial" ->
              AddResult(mem, WriteEntry(CorruptEntry), FALSE, {cache_filepath}, FALSE)
         [] OTHER ->
              LET mem1 == AppendRow(mem, query, query_vector, cache_filepath)
              IN AddResult(mem1,
                           save_faiss_cache(mem1, WriteEntry(OkEntry(result_to_save)), sv),
                           TRUE, {cache_filepath}, TRUE)

\* ------------------------------------------------------------- embedding
NoVector == [some |-> FALSE, v |-> <<0, 0>>]
\* get_embedding: None when the client is missing or the call fails or
\* returns nothing, else the vector of the stripped text.
get_embedding(text, apiOk) ==
    IF ~apiOk \/ Strip(text) = <<>> THEN NoVector
    ELSE [some |-> TRUE, v |-> Embedding(Strip(text))]

\* ------------------------------------------------------------- observation
\* The record of the last call, kept until the process or the files are
\* disturbed: its kind, whether its argument was no text at all, the stripped
\* query once embedded, the branch it took, the payload it returned, the
\* embedding calls and live searches it made, whether the cache directory
\* was empty when it began, what the lookup found and what the call wrote.
NoCall ==
    [kind |-> "none", blank |-> FALSE, query |-> <<>>, path |-> "none",
     ret |-> EmptyDict, embeds |-> 0, live |-> 0,
     cold |-> FALSE,
     why |-> "none", score |-> -1, nn |-> -1, top1 |-> -1,
     wrote |-> {}, entryWrite |-> "none", added |-> FALSE, save |-> "none"]

\* The argument is not a str, or is a str of nothing but whitespace.
IsBlankArgument(raw) ==
    raw.kind # "str" \/ \A i \in 1..Len(raw.chars) : IsSpace(raw.chars[i])

\* No index file, no mapping file and no entry file.
IsEmptyDirectory(disk) ==
    /\ disk.idx.state = "absent"
    /\ disk.map.state = "absent"
    /\ \A p \in DOMAIN disk.entries : disk.entries[p].state = "absent"

Commit(mem, disk, rec, nfaults) ==
    /\ faults + nfaults <= MaxFaults
    /\ faults' = faults + nfaults
    /\ faiss_index' = mem.index
    /\ index_id_to_data' = mem.map
    /\ next_faiss_id' = mem.next
    /\ indexFile' = disk.idx
    /\ mappingFile' = disk.map
    /\ entryFiles' = disk.entries
    /\ last' = rec
    /\ UNCHANGED sessionVars

\* ------------------------------------------------------------- resolve
\* A variant of the payload of line 236 without its status.
InvalidQueryPayload_NoStatus ==
    DictSet(EmptyDict, "error", "Invalid or empty query received.")
InvalidQueryPayload ==
    DictSet(DictSet(EmptyDict, "error", "Invalid or empty query received."),
            "_cache_status", Status("Error", -1, ""))
EmptyQueryPayload ==
    DictSet(DictSet(EmptyDict, "error", "Empty query received."),
            "_cache_status", Status("Error", -1, ""))

\* if not query or not isinstance(query, str)
IsInvalidQuery(raw) == raw.kind # "str" \/ raw.chars = <<>>

\* A variant of the test of line 262 that lets a payload with the error key in.
IsCacheable_IgnoringError(live_data) == live_data.keys # {}
\* isinstance(live_data, dict) and "error" not in live_data and live_data
IsCacheable(live_data) == live_data.keys # {} /\ ~Has(live_data, "error")

\* A variant of lines 262-271 that returns nothing when the live search failed.
FinishLive_NothingOnFailure(live_data) ==
    IF IsCacheable(live_data)
    THEN DictSet(live_data, "_cache_status", Status("Live Search (Cache Miss)", -1, ""))
    ELSE EmptyDict
\* The payload returned after a miss (web_search.py lines 262-271).
FinishLive(live_data) ==
    IF IsCacheable(live_data)
    THEN DictSet(live_data, "_cache_status", Status("Live Search (Cache Miss)", -1, ""))
    ELSE IF Has(live_data, "error")
    THEN DictSet(live_data, "_cache_status",
                 Status("Live Search Failed", -1, live_data.val["error"]))
    ELSE DictSet(DictSet(EmptyDict, "error", "Live search returned empty results."),
                 "_cache_status", Status("Live Search Failed (Empty)", -1, ""))

\* A variant of line 248 that returns the status alone.
EmbedFailedPayload_StatusOnly(live_data) ==
    DictSet(EmptyDict, "_cache_status", Status("Live Search (Embedding Failed)", -1, ""))
\* live_data["_cache_status"] = "Live Search (Embedding Failed)"
EmbedFailedPayload(live_data) ==
    DictSet(live_data, "_cache_status", Status("Live Search (Embedding Failed)", -1, ""))

\* get_search_results_with_cache(query), run to its return.  (A value bound
\* by \E over a one-element set is computed once.)
Resolve ==
    \E raw \in RawQueries :
    \E call \in {[NoCall EXCEPT !.kind = "resolve", !.blank = IsBlankArgument(raw),
                                !.cold = IsEmptyDirectory(Disk)]} :
        IF IsInvalidQuery(raw)
        THEN Commit(Mem, Disk, [call EXCEPT !.path = "invalid", !.ret = InvalidQueryPayload], 0)
        ELSE IF Strip(raw.chars) = <<>>
        THEN Commit(Mem, Disk, [call EXCEPT !.path = "empty", !.ret = EmptyQueryPayload], 0)
        ELSE
          \E query \in {Strip(raw.chars)}, apiOk \in BOOLEAN :
          \E query_vector \in {get_embedding(query, apiOk)} :
            IF ~query_vector.some
            THEN \E live_data \in LiveResults :
                    Commit(Mem, Disk,
                        [call EXCEPT !.path = "embed_failed",
                            !.embeds = 1, !.live = 1,
                            !.ret = EmbedFailedPayload(live_data)],
                        0)
            ELSE
              \E got \in {get_from_cache(Mem, Disk, query, query_vector.v)} :
              \E seen \in {[call EXCEPT !.query = query, !.embeds = 1,
                                        !.why = got.why, !.nn = got.nn,
                                        !.top1 = got.top1]} :
              IF got.data.some
              THEN Commit(got.mem, Disk,
                      [seen EXCEPT !.path = "hit", !.score = got.score,
                                   !.ret = got.data.v], 0)
              ELSE \E live_data \in LiveResults :
                IF IsCacheable(live_data)
                THEN /\ ntotal(got.mem.index) < MaxRows
                     /\ \E now \in Times, ew \in EntryWriteOutcomes :
                        \E sv \in (IF ew = "ok" THEN SaveOutcomes ELSE {"none"}) :
                          /\ faults + (IF ew = "fail" \/ sv = "ok" THEN 0 ELSE 1)
                                <= MaxFaults
                          /\ \E added \in {add_to_cache(got.mem, Disk, query, got.qv,
                                                      live_data, now, ew, sv)} :
                             Commit(added.mem, added.disk,
                                [seen EXCEPT !.path = "miss", !.live = 1,
                                    !.wrote = added.wrote, !.entryWrite = ew,
                                    !.added = added.ok,
                                    !.save = IF added.saved THEN sv ELSE "none",
                                    !.ret = FinishLive(live_data)],
                                IF ew = "fail" \/ sv = "ok" THEN 0 ELSE 1)
                ELSE Commit(got.mem, Disk,
                        [seen EXCEPT !.path = "miss", !.live = 1,
                            !.ret = FinishLive(live_data)], 0)

\* The same call when the process dies in save_faiss_cache after the index
\* file is written and before the mapping file is: nothing is returned and
\* the globals are gone.
ResolveCrash ==
    \E raw \in RawQueries, live_data \in LiveResults, now \in Times :
        /\ faults + 1 <= MaxFaults
        /\ ~IsInvalidQuery(raw)
        /\ Strip(raw.chars) # <<>>
        /\ IsCacheable(live_data)
        /\ \E query \in {Strip(raw.chars)} :
           \E got \in {get_from_cache(Mem, Disk, query, get_embedding(query, TRUE).v)} :
              /\ ~got.data.some
              /\ ntotal(got.mem.index) < MaxRows
              /\ \E added \in {add_to_cache(got.mem, Disk, query, got.qv, live_data,
                                              now, "ok", CrashBetween)} :
                    Commit(FreshMem, added.disk, [NoCall EXCEPT !.kind = "crash"], 1)

\* get_cache_info(): the sidebar's read of the cache.
GetCacheInfo ==
    Commit(load_faiss_cache(Mem, Disk), Disk, [NoCall EXCEPT !.kind = "info"], 0)

\* The process ends and a new one starts: the module globals are as at import.
Restart ==
    Commit(FreshMem, Disk, NoCall, 0)

\* ------------------------------------------------------------- environment
\* Somebody deletes or damages a file of the cache directory.
DeleteEntryFile ==
    \E p \in DOMAIN entryFiles :
        /\ entryFiles[p].state # "absent"
        /\ Commit(Mem, [Disk EXCEPT !.entries[p] = AbsentEntry],
                  NoCall, 1)

CorruptEntryFile ==
    \E p \in DOMAIN entryFiles :
        /\ entryFiles[p].state = "ok"
        /\ Commit(Mem, [Disk EXCEPT !.entries[p] = CorruptEntry],
                  NoCall, 1)

DeleteIndexFile ==
    /\ indexFile.state # "absent"
    /\ Commit(Mem, [Disk EXCEPT !.idx = AbsentIndexFile],
              NoCall, 1)

TruncateIndexFile ==
    /\ indexFile.state = "ok"
    /\ Commit(Mem, [Disk EXCEPT !.idx = CorruptIndexFile],
              NoCall, 1)

\* ------------------------------------------------------------- specification
\* An empty cache directory and a process that has just imported the module.
Init ==
    /\ faiss_index = NoIndex
    /\ index_id_to_data = EmptyMap
    /\ next_faiss_id = 0
    /\ indexFile = AbsentIndexFile
    /\ mappingFile = AbsentMappingFile
    /\ entryFiles = [p \in Paths |-> AbsentEntry]
    /\ faults = 0
    /\ last = NoCall
    /\ NoSession

Next ==
    \/ Resolve
    \/ ResolveCrash
    \/ GetCacheInfo
    \/ Restart
    \/ DeleteEntryFile
    \/ CorruptEntryFile
    \/ DeleteIndexFile
    \/ TruncateIndexFile

Spec == Init /\ [][Next]_vars

\* A cache directory that an earlier run left behind: "a" was cached and
\* saved, then the process died in the save of "c" after the index file was
\* written and before the mapping file was.  A new process has just started.
DiskAfterCrash ==
    LET first == add_to_cache(FreshMem, EmptyDisk, TextA, Embedding(TextA),
                              LiveSuccess("r1"), "t1", "ok", "ok")
        got == get_from_cache(first.mem, first.disk, TextC, Embedding(TextC))
    IN add_to_cache(got.mem, first.disk, TextC, got.qv,
                    LiveSuccess("r1"), "t1", "ok", CrashBetween).disk
InitAfterCrash ==
    /\ faiss_index = NoIndex
    /\ index_id_to_data = EmptyMap
    /\ next_faiss_id = 0
    /\ indexFile = DiskAfterCrash.idx
    /\ mappingFile = DiskAfterCrash.map
    /\ entryFiles = DiskAfterCrash.entries
    /\ faults = 0
    /\ last = NoCall
    /\ NoSession
SpecAfterCrash == InitAfterCrash /\ [][Next]_vars

\* The directories load_faiss_cache accepts that hold one vector and one
\* record: the check of lines 68-70 compares the two counts, and the check
\* of lines 71-72 of the next id against the count only prints a warning.
\* The record's key and the next id are whatever the mapping file says.
AcceptedPairs ==
    { DiskOf(OkIndexFile(<<Embedding(TextA)>>),
             OkMappingFile(n, [s \in {IntToStr(k)} |-> <<TextA, PathOf(TextA)>>]),
             [p \in Paths |->
                 IF p = PathOf(TextA)
                 THEN OkEntry(DictSet(DictSet(LiveSuccess("r1"),
                          "_cached_original_query", TextA), "_cache_timestamp", "t1"))
                 ELSE AbsentEntry])
      : n \in 0..2, k \in 0..1 }
\* A process that has just imported the module, on such a directory.
InitAcceptedPair ==
    /\ faiss_index = NoIndex
    /\ index_id_to_data = EmptyMap
    /\ next_faiss_id = 0
    /\ \E disk \in AcceptedPairs :
          /\ indexFile = disk.idx
          /\ mappingFile = disk.map
          /\ entryFiles = disk.entries
    /\ faults = 0
    /\ last = NoCall
    /\ NoSession
SpecAcceptedPair == InitAcceptedPair /\ [][Next]_vars

\* ------------------------------------------------------------- legacy
\* previous/streamlit_app.py, the single-file implementation.  Streamlit
\* runs the script from the top on every interaction, each run in a module
\* namespace of its own.  initialize_chatbot_resources is cached with
\* st.cache_resource: it runs once in a process and every run gets the same
\* tuple, whose index and dict are the objects every run mutates and whose
\* int is the next id read when the cache was loaded.  The chat session is
\* kept in st.session_state with the tool function of the run that created
\* it, so next_faiss_id is here the global of that function's namespace.

\* load_faiss_cache of the legacy file (lines 172-213): it takes no globals
\* and returns the three components.
legacy_load_faiss_cache(disk) ==
    IF /\ disk.idx.state # "absent" /\ disk.map.state # "absent"
       /\ disk.idx.state = "ok"
       /\ disk.map.state = "ok"
       /\ Len(disk.idx.vectors) = Cardinality(DOMAIN MappingFromJson(disk.map.mapping))
    THEN MemOf(IndexOf(disk.idx.vectors), MappingFromJson(disk.map.mapping),
               disk.map.next_id)
    ELSE MemOf(IndexOf(<<>>), EmptyMap, 0)

\* Lines 456-506: the lookup, with the vector normalised at line 454.
legacy_lookup(mem, disk, new_query_vector) ==
    IF ntotal(mem.index) = 0
    THEN GetResult(mem, None, -1, new_query_vector, "empty_index", -1, -1)
    ELSE
      LET hit == search(mem.index.vectors, new_query_vector)
          nearest_neighbor_id == hit.I
          similarity_score == hit.D
      IN IF ~(similarity_score >= CACHE_SIMILARITY_THRESHOLD)
         THEN GetResult(mem, None, -1, new_query_vector, "below_threshold",
                        nearest_neighbor_id, similarity_score)
         ELSE IF nearest_neighbor_id \notin DOMAIN mem.map
         THEN GetResult(mem, None, -1, new_query_vector, "not_in_mapping",
                        nearest_neighbor_id, similarity_score)
         ELSE
           LET cached_filepath == mem.map[nearest_neighbor_id][2]
               file == IF cached_filepath \in DOMAIN disk.entries
                       THEN disk.entries[cached_filepath] ELSE AbsentEntry
           IN CASE file.state = "absent" ->
                     GetResult(DropRecord(mem, nearest_neighbor_id), None, -1,
                               new_query_vector, "file_missing", nearest_neighbor_id,
                               similarity_score)
                [] file.state = "corrupt" ->
                     GetResult(mem, None, -1, new_query_vector, "file_unreadable",
                               nearest_neighbor_id, similarity_score)
                [] OTHER ->
                     GetResult(mem,
                         Some(DictSet(DictPop(DictPop(file.data,
                                  "_cached_original_query"), "_cache_timestamp"),
                              "_cache_status", Status("HIT", similarity_score, ""))),
                         similarity_score, new_query_vector, "hit",
                         nearest_neighbor_id, similarity_score)

\* Lines 516-543: the entry file, the row and the save, in one try.
legacy_store(mem, disk0, query, new_query_vector, live_data, now, ew, sv) ==
    LET cache_filepath == PathOf(query)
        live_data_to_save ==
            DictSet(DictSet(live_data, "_cached_original_query", query),
                    "_cache_timestamp", now)
        WriteEntry(file) ==
            [disk0 EXCEPT !.entries =
                [p \in DOMAIN disk0.entries \cup {cache_filepath} |->
                    IF p = cache_filepath THEN file ELSE disk0.entries[p]]]
    IN CASE ew = "fail" -> AddResult(mem, disk0, FALSE, {}, FALSE)
         [] ew = "partial" ->
              AddResult(mem, WriteEntry(CorruptEntry), FALSE, {cache_filepath}, FALSE)
         [] OTHER ->
              LET current_id == mem.next
                  mem1 == MemOf(IndexOf(Append(mem.index.vectors, new_query_vector)),
                                [k \in DOMAIN mem.map \cup {current_id} |->
                                    IF k = current_id THEN <<query, cache_filepath>>
                                    ELSE mem.map[k]],
                                mem.next + 1)
              IN AddResult(mem1,
                           save_faiss_cache(mem1, WriteEntry(OkEntry(live_data_to_save)),
                                            sv),
                           TRUE, {cache_filepath}, TRUE)

\* Lines 516-560: the payload returned after a miss.  The live payload
\* already carries a status, so line 555 sets none.
legacy_finish(live_data, stored) ==
    IF IsCacheable(live_data)
    THEN IF stored THEN live_data
         ELSE DictSet(live_data, "_cache_status",
                      Status("Live Search (Cache Save Failed)", -1, ""))
    ELSE DictSet(live_data, "_cache_status",
                 Status("Live Search Failed", -1, live_data.val["error"]))

\* What a step of the legacy script leaves: the shared index and dict, the
\* tool function's next_faiss_id, the files, the chat and the cached int.
LegacyCommit(mem, disk, rec, nfaults, hasChat, cachedNext) ==
    /\ faults + nfaults <= MaxFaults
    /\ faults' = faults + nfaults
    /\ faiss_index' = mem.index
    /\ index_id_to_data' = mem.map
    /\ next_faiss_id' = mem.next
    /\ indexFile' = disk.idx
    /\ mappingFile' = disk.map
    /\ entryFiles' = disk.entries
    /\ last' = rec
    /\ chat' = hasChat
    /\ initialized_next_faiss_id' = cachedNext
    /\ UNCHANGED <<threads, legacy>>

\* One run of the script up to the creation of the chat (lines 600-700):
\* initialize_chatbot_resources loads the cache the first time and returns
\* the cached tuple afterwards; lines 643-648 assign its components to the
\* globals of this run; and when st.session_state holds no chat, one is
\* created with this run's tool function.
LegacyRerun ==
    \E resources \in {IF faiss_index.loaded
                      THEN MemOf(faiss_index, index_id_to_data,
                                 initialized_next_faiss_id)
                      ELSE legacy_load_faiss_cache(Disk)} :
        LegacyCommit(MemOf(resources.index, resources.map,
                           IF chat THEN next_faiss_id ELSE resources.next),
                     Disk, NoCall, 0, TRUE, resources.next)

\* The tool call of the chat: get_search_results_with_cache (lines 425-563)
\* of the run that created the chat.
LegacyResolve ==
    /\ chat
    /\ \E raw \in RawQueries :
       \E call \in {[NoCall EXCEPT !.kind = "resolve", !.blank = IsBlankArgument(raw),
                                   !.cold = IsEmptyDirectory(Disk)]} :
        IF IsInvalidQuery(raw)
        THEN LegacyCommit(Mem, Disk,
                [call EXCEPT !.path = "invalid", !.ret = InvalidQueryPayload], 0,
                chat, initialized_next_faiss_id)
        ELSE IF Strip(raw.chars) = <<>>
        THEN LegacyCommit(Mem, Disk,
                [call EXCEPT !.path = "empty", !.ret = EmptyQueryPayload], 0,
                chat, initialized_next_faiss_id)
        ELSE
          \E query \in {Strip(raw.chars)}, apiOk \in BOOLEAN :
          \E new_query_vector \in {get_embedding(query, apiOk)} :
            IF ~new_query_vector.some
            THEN \E live_data \in LiveResults :
                    LegacyCommit(Mem, Disk,
                        [call EXCEPT !.path = "embed_failed",
                            !.embeds = 1, !.live = 1,
                            !.ret = EmbedFailedPayload(live_data)],
                        0, chat, initialized_next_faiss_id)
            ELSE
              \E got \in {legacy_lookup(Mem, Disk, normalize_L2(new_query_vector.v))} :
              \E seen \in {[call EXCEPT !.query = query, !.embeds = 1,
                                        !.why = got.why, !.nn = got.nn,
                                        !.top1 = got.top1]} :
              IF got.data.some
              THEN LegacyCommit(got.mem, Disk,
                      [seen EXCEPT !.path = "hit", !.score = got.score,
                                   !.ret = got.data.v],
                      0, chat, initialized_next_faiss_id)
              ELSE \E live_data \in LiveResults :
                IF IsCacheable(live_data)
                THEN /\ ntotal(got.mem.index) < MaxRows
                     /\ \E now \in Times, ew \in EntryWriteOutcomes :
                        \E sv \in (IF ew = "ok" THEN SaveOutcomes ELSE {"none"}) :
                          /\ faults + (IF ew = "fail" \/ sv = "ok" THEN 0 ELSE 1)
                                <= MaxFaults
                          /\ \E added \in {legacy_store(got.mem, Disk, query, got.qv,
                                                      live_data, now, ew, sv)} :
                             LegacyCommit(added.mem, added.disk,
                                [seen EXCEPT !.path = "miss", !.live = 1,
                                    !.wrote = added.wrote, !.entryWrite = ew,
                                    !.added = added.ok,
                                    !.save = IF added.saved THEN sv ELSE "none",
                                    !.ret = legacy_finish(live_data, added.ok)],
                                IF ew = "fail" \/ sv = "ok" THEN 0 ELSE 1,
                                chat, initialized_next_faiss_id)
                ELSE LegacyCommit(got.mem, Disk,
                        [seen EXCEPT !.path = "miss", !.live = 1,
                            !.ret = legacy_finish(live_data, FALSE)],
                        0, chat, initialized_next_faiss_id)

\* The sidebar's "Clear Chat History" (lines 786-790): the chat is deleted
\* from st.session_state and the script runs again.
LegacyClearChat ==
    /\ chat
    /\ LegacyCommit(Mem, Disk, NoCall, 0, FALSE, initialized_next_faiss_id)

\* The process ends and a new one starts: nothing is cached.
LegacyRestart ==
    LegacyCommit(FreshMem, Disk, NoCall, 0, FALSE, 0)

NextLegacy ==
    \/ LegacyRerun
    \/ LegacyResolve
    \/ LegacyClearChat
    \/ LegacyRestart
    \/ DeleteEntryFile

SpecLegacy == Init /\ [][NextLegacy]_vars

\* ------------------------------------------------------------- two threads
\* Two calls of get_search_results_with_cache in one process (Streamlit runs
\* each session's script in a thread of its own, and utils/cache_utils.py is
\* imported once).  A thread can be suspended between any two statements;
\* the statements of add_to_cache from line 161 on are taken one at a time.
\* pc names the statement a thread executes next.
InAppend == {"add", "record", "increment"}

\* A variant of line 164 that leaves next_faiss_id as it is.
IncrementNextId_Skipped(n) == n
\* next_faiss_id += 1
IncrementNextId(n) == n + 1

\* Lines 227-259 and 139-157: thread t looks its query up, misses, searches
\* live with success and writes the entry file.
BeginMiss(t) ==
    /\ threads[t].pc = "idle"
    /\ \E query \in Texts :
       \E got \in {get_from_cache(Mem, Disk, query, Embedding(query))} :
          /\ ~got.data.some
          /\ ntotal(got.mem.index)
                + Cardinality({u \in Threads : threads[u].pc \in {"read", "add"}})
                < MaxRows
          /\ faiss_index' = got.mem.index
          /\ index_id_to_data' = got.mem.map
          /\ next_faiss_id' = got.mem.next
          /\ entryFiles' =
                [entryFiles EXCEPT ![PathOf(query)] =
                    OkEntry(DictSet(DictSet(LiveSuccess("r1"),
                        "_cached_original_query", query), "_cache_timestamp", "t1"))]
          /\ threads' = [threads EXCEPT ![t] =
                [@ EXCEPT !.pc = "read", !.query = query, !.qv = got.qv,
                          !.current_id = -1]]
    /\ UNCHANGED <<indexFile, mappingFile, faults, last, chat,
                   initialized_next_faiss_id, legacy>>

\* current_id = next_faiss_id
ReadNextId(t) ==
    /\ threads[t].pc = "read"
    /\ threads' = [threads EXCEPT ![t] =
          [@ EXCEPT !.pc = "add", !.current_id = next_faiss_id,
                    !.raced = @ \/ \E u \in Threads \ {t} : threads[u].pc \in InAppend]]
    /\ UNCHANGED <<memVars, diskVars, faults, last, chat, initialized_next_faiss_id, legacy>>

\* faiss_index.add(query_vector.reshape(1, -1))
AddVector(t) ==
    /\ threads[t].pc = "add"
    /\ faiss_index' = IndexOf(Append(faiss_index.vectors, threads[t].qv))
    /\ threads' = [threads EXCEPT ![t].pc = "record"]
    /\ UNCHANGED <<index_id_to_data, next_faiss_id, diskVars, faults, last, chat,
                   initialized_next_faiss_id, legacy>>

\* index_id_to_data[current_id] = [query, cache_filepath]
WriteRecord(t) ==
    /\ threads[t].pc = "record"
    /\ index_id_to_data' =
          [k \in DOMAIN index_id_to_data \cup {threads[t].current_id} |->
              IF k = threads[t].current_id
              THEN <<threads[t].query, PathOf(threads[t].query)>>
              ELSE index_id_to_data[k]]
    /\ threads' = [threads EXCEPT ![t].pc = "increment"]
    /\ UNCHANGED <<faiss_index, next_faiss_id, diskVars, faults, last, chat,
                   initialized_next_faiss_id, legacy>>

\* next_faiss_id += 1
Increment(t) ==
    /\ threads[t].pc = "increment"
    /\ next_faiss_id' = IncrementNextId(next_faiss_id)
    /\ threads' = [threads EXCEPT ![t].pc = "save"]
    /\ UNCHANGED <<faiss_index, index_id_to_data, diskVars, faults, last, chat,
                   initialized_next_faiss_id, legacy>>

\* save_faiss_cache(), return True, and the resolve returns.
SaveAndReturn(t) ==
    /\ threads[t].pc = "save"
    /\ \E after \in {save_faiss_cache(Mem, Disk, "ok")} :
          /\ indexFile' = after.idx
          /\ mappingFile' = after.map
          /\ entryFiles' = after.entries
    /\ threads' = [threads EXCEPT ![t].pc = "idle"]
    /\ UNCHANGED <<memVars, faults, last, chat, initialized_next_faiss_id, legacy>>

NextConcurrent ==
    \E t \in Threads :
        \/ BeginMiss(t)
        \/ ReadNextId(t)
        \/ AddVector(t)
        \/ WriteRecord(t)
        \/ Increment(t)
        \/ SaveAndReturn(t)

SpecConcurrent == Init /\ [][NextConcurrent]_vars

\* ------------------------------------------------------------- side by side
\* The modular implementation and a process of previous/streamlit_app.py,
\* each on a cache directory of its own that started empty, given the same
\* calls, the same embedding and live-search results, the same outcomes of
\* the writes and the same deletions of entry files.

\* What a call left: the globals, the files, the path taken and whether the
\* call tried to store a live result.
CallResult(mem, disk, path, tried) ==
    [mem |-> mem, disk |-> disk, path |-> path, tried |-> tried]

\* web_search.py lines 227-274 as a function of the call's inputs.
get_search_results_with_cache(mem, disk, raw, apiOk, live_data, now, ew, sv) ==
    IF IsInvalidQuery(raw) THEN CallResult(mem, disk, "invalid", FALSE)
    ELSE IF Strip(raw.chars) = <<>> THEN CallResult(mem, disk, "empty", FALSE)
    ELSE
      LET query == Strip(raw.chars)
          query_vector == get_embedding(query, apiOk)
      IN IF ~query_vector.some
         THEN CallResult(mem, disk, "embed_failed", FALSE)
         ELSE
           LET got == get_from_cache(mem, disk, query, query_vector.v)
           IN IF got.data.some
              THEN CallResult(got.mem, disk, "hit", FALSE)
              ELSE IF IsCacheable(live_data)
              THEN LET added == add_to_cache(got.mem, disk, query, got.qv,
                                             live_data, now, ew, sv)
                   IN CallResult(added.mem, added.disk, "miss", TRUE)
              ELSE CallResult(got.mem, disk, "miss", FALSE)

\* previous/streamlit_app.py lines 425-563 as a function of the same inputs.
legacy_get_search_results_with_cache(mem, disk, raw, apiOk, live_data, now, ew, sv) ==
    IF IsInvalidQuery(raw) THEN CallResult(mem, disk, "invalid", FALSE)
    ELSE IF Strip(raw.chars) = <<>> THEN CallResult(mem, disk, "empty", FALSE)
    ELSE
      LET query == Strip(raw.chars)
          new_query_vector == get_embedding(query, apiOk)
      IN IF ~new_query_vector.some
         THEN CallResult(mem, disk, "embed_failed", FALSE)
         ELSE
           LET got == legacy_lookup(mem, disk, normalize_L2(new_query_vector.v))
           IN IF got.data.some
              THEN CallResult(got.mem, disk, "hit", FALSE)
              ELSE IF IsCacheable(live_data)
              THEN LET added == legacy_store(got.mem, disk, query, got.qv,
                                             live_data, now, ew, sv)
                   IN CallResult(added.mem, added.disk, "miss", TRUE)
              ELSE CallResult(got.mem, disk, "miss", FALSE)

\* One call given to both.  A write outcome other than success is a failure
\* of the surroundings, and there is none when neither side writes.
SideBySideResolve ==
    \E raw \in RawQueries, apiOk \in BOOLEAN, live_data \in LiveResults,
       now \in Times, ew \in EntryWriteOutcomes :
    \E sv \in (IF ew = "ok" THEN SaveOutcomes ELSE {"none"}) :
    \E m \in {get_search_results_with_cache(Mem, Disk, raw, apiOk, live_data,
                                            now, ew, sv)},
       l \in {legacy_get_search_results_with_cache(legacy.mem, legacy.disk, raw,
                                                   apiOk, live_data, now, ew, sv)} :
    \E nfaults \in {IF ew = "fail" \/ sv = "ok" THEN 0 ELSE 1} :
        /\ (~m.tried /\ ~l.tried) => (ew = "ok" /\ sv = "ok")
        /\ ntotal(m.mem.index) <= MaxRows
        /\ ntotal(l.mem.index) <= MaxRows
        /\ faults + nfaults <= MaxFaults
        /\ faults' = faults + nfaults
        /\ faiss_index' = m.mem.index
        /\ index_id_to_data' = m.mem.map
        /\ next_faiss_id' = m.mem.next
        /\ indexFile' = m.disk.idx
        /\ mappingFile' = m.disk.map
        /\ entryFiles' = m.disk.entries
        /\ last' = [NoCall EXCEPT !.kind = "resolve", !.path = m.path,
                                  !.blank = IsBlankArgument(raw)]
        /\ legacy' = LegacyProcess(l.mem, l.disk, l.path)
        /\ UNCHANGED <<threads, chat, initialized_next_faiss_id>>

\* Somebody deletes the entry file of one path in both directories.
SideBySideDeleteEntryFile ==
    \E p \in Paths :
        /\ entryFiles[p].state # "absent" \/ legacy.disk.entries[p].state # "absent"
        /\ faults + 1 <= MaxFaults
        /\ faults' = faults + 1
        /\ entryFiles' = [entryFiles EXCEPT ![p] = AbsentEntry]
        /\ legacy' = [legacy EXCEPT !.disk.entries[p] = AbsentEntry, !.path = "none"]
        /\ last' = NoCall
        /\ UNCHANGED <<memVars, indexFile, mappingFile, threads, chat,
                       initialized_next_faiss_id>>

\* Both processes end and new ones start: the modular globals are as at
\* import, the legacy script runs from the top and loads its cache.
SideBySideRestart ==
    /\ faiss_index' = FreshMem.index
    /\ index_id_to_data' = FreshMem.map
    /\ next_faiss_id' = FreshMem.next
    /\ legacy' = LegacyProcess(legacy_load_faiss_cache(legacy.disk), legacy.disk, "none")
    /\ last' = NoCall
    /\ UNCHANGED <<diskVars, faults, threads, chat, initialized_next_faiss_id>>

\* Two empty cache directories, the modular module just imported and the
\* legacy script just run to its load.
InitSideBySide ==
    /\ faiss_index = NoIndex
    /\ index_id_to_data = EmptyMap
    /\ next_faiss_id = 0
    /\ indexFile = AbsentIndexFile
    /\ mappingFile = AbsentMappingFile
    /\ entryFiles = [p \in Paths |-> AbsentEntry]
    /\ faults = 0
    /\ last = NoCall
    /\ threads = NoThreads
    /\ chat = FALSE
    /\ initialized_next_faiss_id = 0
    /\ legacy = LegacyProcess(legacy_load_faiss_cache(EmptyDisk), EmptyDisk, "none")

NextSideBySide ==
    \/ SideBySideResolve
    \/ SideBySideDeleteEntryFile
    \/ SideBySideRestart

SpecSideBySide == InitSideBySide /\ [][NextSideBySide]_vars

\* ------------------------------------------------------------- properties
\* A payload without its _cache_status.
Body(payload) == DictPop(payload, "_cache_status")

\* C1: miss-then-hit.  When a resolve of q began with an empty cache
\* directory and an empty index, searched live with success and wrote the
\* entry file, the index file and the mapping file, then a resolve of the
\* same q that comes next and embeds q returns the cached payload with a HIT
\* status and searches live no second time.
C1_MissThenHit ==
    [][ ( /\ last.kind = "resolve" /\ last.path = "miss"
          /\ last.cold /\ last.why = "empty_index"
          /\ last.live = 1 /\ ~Has(last.ret, "error")
          /\ last.added /\ last.entryWrite = "ok" /\ last.save = "ok"
          /\ last'.kind = "resolve" /\ last'.query = last.query
          /\ last'.embeds = 1 /\ last'.path # "embed_failed" )
        => ( /\ last'.path = "hit"
             /\ last'.live = 0
             /\ last'.ret.val["_cache_status"].tag = "HIT"
             /\ Body(last'.ret) = Body(last.ret) ) ]_vars

\* C2: a failed live search is never cached.  In every resolve whose live
\* search returned a payload with the error key, no entry file is opened for
\* writing, no file changes, and the vectors, the mapping and the next id of
\* the cache (as load_faiss_cache gives them, which the call may have run)
\* are after the call what they were before it.
C2_FailedLiveNeverCached ==
    [][ (last'.kind = "resolve" /\ last'.live = 1 /\ Has(last'.ret, "error"))
        => ( /\ last'.wrote = {}
             /\ UNCHANGED diskVars
             /\ Mem' \in {Mem, load_faiss_cache(Mem, Disk)}
             /\ load_faiss_cache(Mem', Disk') = load_faiss_cache(Mem, Disk) ) ]_vars
\* A lookup that found a cache of one vector or more missed, and the live
\* search that followed failed.
C2_Witness ==
    /\ last.kind = "resolve" /\ last.path = "miss"
    /\ last.live = 1 /\ Has(last.ret, "error")
    /\ ntotal(faiss_index) >= 1

\* The step is a resolve that embedded the query and looked it up.
LookedUp == last'.kind = "resolve" /\ last'.embeds = 1 /\ last'.path # "embed_failed"
\* The cache is empty: loaded, no vector, no record, next id 0.
EmptyCache == MemOf(IndexOf(<<>>), EmptyMap, 0)

\* C3: threshold boundary.  In a resolve whose search found a nearest
\* neighbour: when the top-1 score is below CACHE_SIMILARITY_THRESHOLD the
\* call is a miss with one live search; when the top-1 score equals the
\* threshold and the neighbour's mapping record and entry file are there and
\* readable the call is a hit with no live search; and a hit never carries a
\* score below the threshold.
C3_ThresholdBoundary ==
    [][ (LookedUp /\ last'.why # "empty_index")
        => LET mem == load_faiss_cache(Mem, Disk)
               present == /\ last'.nn \in DOMAIN mem.map
                          /\ entryFiles[mem.map[last'.nn][2]].state = "ok"
           IN /\ last'.top1 < CACHE_SIMILARITY_THRESHOLD
                    => (last'.path = "miss" /\ last'.live = 1)
              /\ (last'.top1 = CACHE_SIMILARITY_THRESHOLD /\ present)
                    => ( /\ last'.path = "hit" /\ last'.live = 0
                         /\ last'.score = CACHE_SIMILARITY_THRESHOLD )
              /\ last'.path = "hit"
                    => ( /\ last'.score >= CACHE_SIMILARITY_THRESHOLD
                         /\ last'.score = last'.top1 ) ]_vars
\* A hit whose score is the threshold itself.
C3_Witness ==
    /\ last.kind = "resolve" /\ last.path = "hit"
    /\ last.score = CACHE_SIMILARITY_THRESHOLD

\* C4: whenever the cache is loaded, the mapping has as many records as the
\* index has vectors.
C4_CountInvariant ==
    faiss_index.loaded => Cardinality(DOMAIN index_id_to_data) = ntotal(faiss_index)
\* A process has loaded the cache from a directory whose index file holds a
\* vector and whose mapping file was never written.
C4_Witness ==
    /\ faiss_index.loaded /\ ntotal(faiss_index) = 0
    /\ indexFile.state = "ok" /\ Len(indexFile.vectors) = 1
    /\ mappingFile.state = "absent"

\* C5: stale-entry self-heal.  In a resolve whose nearest neighbour scores at
\* or above the threshold and has its record, but whose entry file is gone,
\* a live search is made and the record of that row is no longer in the
\* mapping after the call.
C5_StaleEntrySelfHeal ==
    [][ (LookedUp /\ last'.why = "file_missing")
        => ( /\ last'.live = 1
             /\ last'.nn \notin DOMAIN index_id_to_data' ) ]_vars

\* C6: missing or corrupt index file.  When a process that has not loaded the
\* cache finds a mapping file but no index file, or an index file it cannot
\* read, load_faiss_cache gives an empty cache; get_cache_info leaves that
\* empty cache loaded; and a resolve that looks the query up finds the index
\* empty, searches live once, and when it appends, the new row is row 0 and
\* the only one.
C6_MissingOrCorruptIndexFile ==
    [][ (LoadCase(Mem, Disk) \in {"index_missing", "index_corrupt"})
        => ( /\ load_faiss_cache(Mem, Disk) = EmptyCache
             /\ last'.kind = "info" => Mem' = EmptyCache
             /\ LookedUp
                  => ( /\ last'.why = "empty_index"
                       /\ last'.path = "miss" /\ last'.live = 1
                       /\ (~Has(last'.ret, "error") /\ last'.entryWrite = "ok")
                             => last'.added
                       /\ ~last'.added => Mem' = EmptyCache
                       /\ last'.added
                             => ( /\ ntotal(faiss_index') = 1
                                  /\ next_faiss_id' = 1
                                  /\ index_id_to_data'
                                        = [k \in {0} |->
                                            <<last'.query, PathOf(last'.query)>>] ) ) ) ]_vars
\* A resolve found the index empty and searched live in a directory that
\* holds a mapping file with a record and no readable index file.
C6_Witness ==
    /\ last.kind = "resolve" /\ last.why = "empty_index" /\ last.live = 1
    /\ mappingFile.state = "ok" /\ DOMAIN mappingFile.mapping # {}
    /\ indexFile.state # "ok"

\* C7: load-time consistency check.  Whatever the files hold, what a fresh
\* process loads has as many records as vectors; and when both files are
\* readable and the index file's vector count differs from the mapping
\* file's record count, it loads the empty cache.
C7_LoadConsistencyCheck ==
    \A mem \in {load_faiss_cache(FreshMem, Disk)} :
       /\ ntotal(mem.index) = Cardinality(DOMAIN mem.map)
       /\ ( /\ indexFile.state = "ok" /\ mappingFile.state = "ok"
            /\ Len(indexFile.vectors)
                  # Cardinality(DOMAIN MappingFromJson(mappingFile.mapping)) )
            => mem = EmptyCache
\* A process has loaded an empty cache from two readable files whose counts
\* differ.
C7_Witness ==
    /\ indexFile.state = "ok" /\ mappingFile.state = "ok"
    /\ Len(indexFile.vectors) # Cardinality(DOMAIN MappingFromJson(mappingFile.mapping))
    /\ faiss_index.loaded /\ Mem = EmptyCache

\* C8: save/load round trip.  For a loaded cache of one vector or more, a
\* save whose two writes succeed followed by a load in a fresh process gives
\* the same vectors in the same order, the same mapping and the same next
\* id, and so the same top-1 row and score for every probe.
C8_SaveLoadRoundTrip ==
    (faiss_index.loaded /\ ntotal(faiss_index) >= 1)
    => \A back \in {load_faiss_cache(FreshMem, save_faiss_cache(Mem, Disk, "ok"))} :
          /\ back.index.vectors = faiss_index.vectors
          /\ back.map = index_id_to_data
          /\ back.next = next_faiss_id
          /\ \A t \in Texts :
                search(back.index.vectors, normalize_L2(Embedding(t)))
                    = search(faiss_index.vectors, normalize_L2(Embedding(t)))
\* A cache of two rows whose last append was saved in full.
C8_Witness ==
    /\ faiss_index.loaded /\ ntotal(faiss_index) = 2
    /\ last.kind = "resolve" /\ last.added /\ last.save = "ok"
    /\ load_faiss_cache(FreshMem, Disk) = Mem

\* C9: every payload a resolve returns holds the _cache_status key, with a
\* status that is not the empty string.
C9_StatusAlwaysPresent ==
    last.kind = "resolve"
    => ( /\ Has(last.ret, "_cache_status")
         /\ last.ret.val["_cache_status"].tag # "" )
\* A resolve has returned the live payload after the embedding failed.
C9_Witness ==
    /\ last.kind = "resolve" /\ last.path = "embed_failed"
    /\ Has(last.ret, "_cache_status")

\* C10: input error.  A resolve whose argument is not a string, is empty, or
\* is blank after stripping returns an error payload at once: no embedding
\* call, no live search, and the globals (so no load) and the files are as
\* before.
C10_InputError ==
    [][ (last'.kind = "resolve" /\ last'.blank)
        => ( /\ last'.path \in {"invalid", "empty"}
             /\ Has(last'.ret, "error")
             /\ last'.embeds = 0 /\ last'.live = 0
             /\ UNCHANGED <<memVars, diskVars>> ) ]_vars
\* A process that had files to load and had not loaded them was given a
\* blank query, and still has not loaded them.
C10_Witness ==
    /\ last.kind = "resolve" /\ last.blank
    /\ ~faiss_index.loaded
    /\ indexFile.state = "ok" /\ mappingFile.state = "ok"

\* C11: embedding failure.  A resolve whose embedding call returns no vector
\* makes that one embedding call and exactly one live search, looks nothing
\* up, returns the live payload under the status of line 248, and leaves the
\* globals (so it loads nothing) and every file as they were, whether the
\* live search succeeded or not.
C11_EmbeddingFailure ==
    [][ (last'.kind = "resolve" /\ last'.path = "embed_failed")
        => ( /\ last'.embeds = 1 /\ last'.live = 1
             /\ last'.why = "none" /\ last'.wrote = {}
             /\ Body(last'.ret) \in {Body(l) : l \in LiveResults}
             /\ last'.ret.val["_cache_status"].tag = "Live Search (Embedding Failed)"
             /\ UNCHANGED <<memVars, diskVars>> ) ]_vars
\* The embedding failed in a process that had saved files to load and had
\* not loaded them; the live search succeeded and nothing was loaded.
C11_Witness ==
    /\ last.kind = "resolve" /\ last.path = "embed_failed"
    /\ ~Has(last.ret, "error")
    /\ ~faiss_index.loaded
    /\ indexFile.state = "ok" /\ mappingFile.state = "ok"

\* What an entry file holds besides the status and the two bookkeeping keys.
Stored(file) ==
    DictPop(DictPop(Body(file.data), "_cached_original_query"), "_cache_timestamp")
\* The live payloads that can be cached, without their status.
CachedBodies == {Body(l) : l \in {r \in LiveResults : IsCacheable(r)}}

\* C12: near-duplicate hit.  When a resolve of B finds as top-1 neighbour, at
\* a score at or above the threshold, a row whose record carries another
\* query A and whose entry file is there and readable, it is a hit with no
\* live search; the payload returned is, status aside, the one the entry
\* file of A holds, which is a live result written for A; and when the call
\* just before was the miss that cached A, it is the payload that call
\* returned.
C12_NearDuplicateHit ==
    [][ LET mem == load_faiss_cache(Mem, Disk)
            A == mem.map[last'.nn][1]
            file == entryFiles[mem.map[last'.nn][2]]
        IN ( /\ LookedUp /\ last'.why # "empty_index"
             /\ last'.top1 >= CACHE_SIMILARITY_THRESHOLD
             /\ last'.nn \in DOMAIN mem.map
             /\ A # last'.query
             /\ file.state = "ok" )
           => ( /\ last'.path = "hit" /\ last'.live = 0
                /\ Body(last'.ret) = Stored(file)
                /\ file.data.val["_cached_original_query"] = A
                /\ Body(last'.ret) \in CachedBodies
                /\ ( /\ last.kind = "resolve" /\ last.path = "miss"
                     /\ last.added /\ last.query = A )
                   => Body(last'.ret) = Body(last.ret) ) ]_vars
\* A hit on a row whose record carries another query than the one asked.
C12_Witness ==
    /\ last.kind = "resolve" /\ last.path = "hit"
    /\ last.nn \in DOMAIN index_id_to_data
    /\ index_id_to_data[last.nn][1] # last.query

\* C13: the hit path is read-only.  A resolve that returns a hit makes no
\* live search, opens no entry file for writing, and leaves the three kinds
\* of file and the cache (as load_faiss_cache gives it) as they were.  And a
\* resolve after which a file or the cache differs is a miss whose live
\* search succeeded and whose add_to_cache opened the entry file; the
\* vectors, the mapping or the next id differ only when that write succeeded.
C13_HitPathReadOnly ==
    [][ last'.kind = "resolve"
        => LET before == load_faiss_cache(Mem, Disk)
           IN /\ last'.path = "hit"
                   => ( /\ last'.live = 0 /\ last'.wrote = {}
                        /\ UNCHANGED diskVars
                        /\ Mem' = before )
              /\ (Mem' \notin {Mem, before} \/ Disk' # Disk)
                   => ( /\ last'.path = "miss" /\ last'.live = 1
                        /\ ~Has(last'.ret, "error")
                        /\ last'.entryWrite \in {"ok", "partial"} )
              /\ Mem' \notin {Mem, before}
                   => (last'.entryWrite = "ok" /\ last'.added) ]_vars
\* A hit on a cache of two rows.
C13_Witness ==
    /\ last.kind = "resolve" /\ last.path = "hit" /\ last.live = 0
    /\ ntotal(faiss_index) = 2

\* C14: bookkeeping keys are never handed back.  No payload a resolve
\* returns holds _cached_original_query or _cache_timestamp, and every
\* readable entry file holds both.
C14_BookkeepingNeverReturned ==
    /\ last.kind = "resolve"
          => ( /\ ~Has(last.ret, "_cached_original_query")
               /\ ~Has(last.ret, "_cache_timestamp") )
    /\ \A p \in DOMAIN entryFiles :
          entryFiles[p].state = "ok"
              => ( /\ Has(entryFiles[p].data, "_cached_original_query")
                   /\ Has(entryFiles[p].data, "_cache_timestamp") )
\* A hit has returned the payload of an entry file that holds both keys.
C14_Witness ==
    /\ last.kind = "resolve" /\ last.path = "hit"
    /\ last.nn \in DOMAIN index_id_to_data
    /\ LET file == entryFiles[index_id_to_data[last.nn][2]]
       IN /\ file.state = "ok"
          /\ Has(file.data, "_cached_original_query")
          /\ Has(file.data, "_cache_timestamp")
          /\ Body(last.ret) = Stored(file)

\* C15: every vector of the index is a unit vector.
C15_StoredVectorsUnit ==
    \A i \in 1..ntotal(faiss_index) : Norm(faiss_index.vectors[i]) = Unit

\* C16: an entry file is written once.  No resolve opens for writing an
\* entry file that is already there in full.
C16_EntryWrittenOnce ==
    [][ last'.kind = "resolve"
        => \A p \in last'.wrote : entryFiles[p].state # "ok" ]_vars

\* C17: one record per original query.  No two records of the mapping carry
\* the same query text.
C17_OneRecordPerQuery ==
    \A i, j \in DOMAIN index_id_to_data :
        i # j => index_id_to_data[i][1] # index_id_to_data[j][1]

\* C18: crash recovery.  Right after the process has died in a save between
\* the write of the index file and the write of the mapping file, what the
\* next process loads from the files is the empty cache.
C18_CrashRecovery ==
    last.kind = "crash" => load_faiss_cache(FreshMem, Disk) = EmptyCache

\* C19: append only after a successful store write.  In a resolve whose
\* write of the entry file fails, the cache is as load_faiss_cache gave it
\* (no vector, no record, the next id as it was), save_faiss_cache is not
\* called and the index file and the mapping file are as before, no entry
\* file but the one being written changes, and the call returns the live
\* result under the status of a cache miss.
C19_AppendOnlyAfterStoreWrite ==
    [][ (last'.kind = "resolve" /\ last'.entryWrite \in {"fail", "partial"})
        => ( /\ Mem' = load_faiss_cache(Mem, Disk)
             /\ ~last'.added /\ last'.save = "none"
             /\ UNCHANGED <<indexFile, mappingFile>>
             /\ \A p \in DOMAIN entryFiles :
                    p # PathOf(last'.query) => entryFiles'[p] = entryFiles[p]
             /\ last'.entryWrite = "fail" => UNCHANGED entryFiles
             /\ last'.path = "miss" /\ last'.live = 1
             /\ Body(last'.ret) \in CachedBodies
             /\ last'.ret.val["_cache_status"].tag = "Live Search (Cache Miss)" ) ]_vars
\* The write of an entry file failed in a resolve that had looked the query
\* up in a cache of one row, and the cache still has one row.
C19_Witness ==
    /\ last.kind = "resolve" /\ last.entryWrite \in {"fail", "partial"}
    /\ last.why = "below_threshold"
    /\ ntotal(faiss_index) = 1

\* The save outcomes in which a write raised and left its file as it was.
CleanSaveFailures == {"index_fail", "mapping_fail"}

\* C20: a save failure is swallowed.  In a resolve whose save_faiss_cache
\* fails to write the index file or the mapping file, the live result is
\* returned, the cache in memory is the loaded one with the new row and its
\* record, and the index file and the mapping file are as before the call;
\* and a resolve of the same query that comes next in the same process is a
\* hit.
C20_SaveFailureSwallowed ==
    [][ /\ (last'.kind = "resolve" /\ last'.save \in CleanSaveFailures)
            => ( /\ last'.path = "miss" /\ last'.live = 1
                 /\ Body(last'.ret) \in CachedBodies
                 /\ last'.added
                 /\ LET before == load_faiss_cache(Mem, Disk)
                    IN /\ ntotal(faiss_index') = ntotal(before.index) + 1
                       /\ next_faiss_id' = before.next + 1
                       /\ index_id_to_data'[before.next]
                             = <<last'.query, PathOf(last'.query)>>
                 /\ UNCHANGED <<indexFile, mappingFile>> )
        /\ ( /\ last.kind = "resolve" /\ last.save \in CleanSaveFailures
             /\ last.added
             /\ LookedUp /\ last'.query = last.query )
            => (last'.path = "hit" /\ last'.live = 0) ]_vars

\* The branches get_search_results_with_cache can return from.
ResolvePaths == {"invalid", "empty", "embed_failed", "hit", "miss"}

\* What a live search can return, without its status.
LiveBodies == {Body(l) : l \in LiveResults}

\* C22: every resolve ends by returning a payload.  The call returns through
\* one of its five branches with a mapping that is not empty; it made at
\* most one live search, none on a hit or for a rejected argument and one on
\* a miss or after a failed embedding; and a lookup that could not read its
\* entry file, a failed entry write and a failed save all end in the
\* returned payload of the live search.
C22_ResolveReturns ==
    last.kind = "resolve"
        => /\ last.path \in ResolvePaths
           /\ last.ret.keys # {}
           /\ last.live \in {0, 1}
           /\ last.path \in {"invalid", "empty", "hit"} => last.live = 0
           /\ last.path \in {"embed_failed", "miss"} => last.live = 1
           /\ (last.why \in {"file_missing", "file_unreadable"}
                 \/ last.entryWrite \in {"fail", "partial"}
                 \/ last.save \notin {"none", "ok"})
                => (last.path = "miss" /\ Body(last.ret) \in LiveBodies)
           /\ last.embeds <= 1
\* A lookup that could not parse its entry file, then a live search whose
\* entry write failed: the call still returned a payload.
C22_Witness ==
    /\ last.kind = "resolve" /\ last.why = "file_unreadable"
    /\ last.entryWrite = "fail" /\ last.live = 1
    /\ Body(last.ret) \in LiveBodies

\* C23: the row id is the ordinal position.  Whenever add_to_cache appends a
\* vector, the key it records, which is next_faiss_id, is the number of
\* vectors the index held before the insertion, and the record is the one of
\* the query appended; this also when the cache in memory was loaded from a
\* directory that load_faiss_cache accepted.
C23_RowIdIsOrdinal ==
    [][ (last'.kind = "resolve" /\ last'.added)
          => LET before == load_faiss_cache(Mem, Disk)
                 row == ntotal(before.index)
             IN /\ before.next = row
                /\ row \in DOMAIN index_id_to_data'
                /\ index_id_to_data'[row] = <<last'.query, PathOf(last'.query)>> ]_vars

\* C24: the order of a save.  save_faiss_cache writes the index file first
\* and the mapping file second: whatever its two writes do, from any state
\* the program reaches, the mapping file is changed only when the index file
\* has been written in full, and is as before when the write of the index
\* file failed.  A resolve that appended a row called save_faiss_cache
\* before it returned; when that save failed at the mapping file, or the
\* process died between the two writes, the index file holds the new vectors.
C24_SaveOrder ==
    /\ \A sv \in SaveOutcomes \cup {CrashBetween} :
          \A after \in {save_faiss_cache(Mem, Disk, sv)} :
             /\ after.map # Disk.map
                  => after.idx = OkIndexFile(faiss_index.vectors)
             /\ sv \in {"index_fail", "index_partial"} => after.map = Disk.map
             /\ after.entries = Disk.entries
    /\ (last.kind = "resolve" /\ last.added) => last.save \in SaveOutcomes
    /\ (last.kind = "resolve" /\ last.save \in {"mapping_fail", "mapping_partial"})
          => indexFile = OkIndexFile(faiss_index.vectors)
    /\ last.kind = "crash"
          => (indexFile.state = "ok" /\ indexFile.vectors # <<>>)
\* A second row was appended and its save wrote the index file, then failed
\* at the mapping file: two vectors in the index file, one record in the
\* mapping file.
C24_Witness ==
    /\ last.kind = "resolve" /\ last.added /\ last.save = "mapping_fail"
    /\ indexFile = OkIndexFile(faiss_index.vectors)
    /\ Len(indexFile.vectors) = 2
    /\ mappingFile.state = "ok"
    /\ Cardinality(DOMAIN mappingFile.mapping) = 1

\* C25: durability at quiescence.  From an empty cache directory, with no
\* failed or partial write and nothing changed from outside, between two
\* resolves a restart followed by load_faiss_cache reproduces the vectors,
\* the mapping and the next id held in memory, so a lookup of any query
\* finds after the restart what it finds before it.
C25_DurableAtQuiescence ==
    (faults = 0 /\ faiss_index.loaded)
        => /\ load_faiss_cache(FreshMem, Disk) = Mem
           /\ \A t \in Texts :
                 \A now \in {get_from_cache(Mem, Disk, t, Embedding(t))},
                    then \in {get_from_cache(FreshMem, Disk, t, Embedding(t))} :
                       now.data = then.data /\ now.why = then.why
\* Two rows cached without a failure, and the last resolve was a hit.
C25_Witness ==
    /\ faults = 0 /\ ntotal(faiss_index) = 2
    /\ last.kind = "resolve" /\ last.path = "hit"
    /\ load_faiss_cache(FreshMem, Disk) = Mem

\* C26: the lazy load happens once.  Once the index is initialised,
\* load_faiss_cache returns the resident state whatever the files hold, be
\* they the files of the moment or none at all, and the calls that begin
\* with it (get_from_cache, add_to_cache up to its append, get_cache_info)
\* leave the index, the mapping and the next id as they are; while the index
\* is not initialised, it takes them from the files.
C26_LazyLoadOnce ==
    /\ faiss_index.loaded
         => /\ load_faiss_cache(Mem, Disk) = Mem
            /\ load_faiss_cache(Mem, EmptyDisk) = Mem
            /\ \A t \in Texts :
                 /\ get_from_cache(Mem, Disk, t, Embedding(t)).mem = Mem
                 /\ add_to_cache(Mem, Disk, t, Embedding(t), LiveSuccess("r1"),
                                 "t1", "fail", "none").mem = Mem
    /\ ~faiss_index.loaded
         => load_faiss_cache(Mem, Disk)
              = IF LoadCase(Mem, Disk) = "accepted"
                THEN MemOf(IndexOf(indexFile.vectors),
                           MappingFromJson(mappingFile.mapping), mappingFile.next_id)
                ELSE EmptyCache
    /\ last.kind = "info" => faiss_index.loaded
\* The sidebar read the cache while a row is resident and the index file is
\* gone: a load from the files would give an empty cache.
C26_Witness ==
    /\ last.kind = "info"
    /\ ntotal(faiss_index) = 1
    /\ indexFile.state = "absent"
    /\ load_faiss_cache(FreshMem, Disk) = EmptyCache

\* C27: append-only within a process.  From one state of a process that has
\* loaded the cache to the next state of the same process, the number of
\* vectors and next_faiss_id do not decrease, the vectors held stay where
\* they are, and every record of the mapping is still there with the same
\* query and the same path.
C27_AppendOnlyInProcess ==
    [][ (faiss_index.loaded /\ faiss_index'.loaded)
        => ( /\ ntotal(faiss_index') >= ntotal(faiss_index)
             /\ next_faiss_id' >= next_faiss_id
             /\ SubSeq(faiss_index'.vectors, 1, ntotal(faiss_index))
                   = faiss_index.vectors
             /\ \A k \in DOMAIN index_id_to_data :
                   /\ k \in DOMAIN index_id_to_data'
                   /\ index_id_to_data'[k] = index_id_to_data[k] ) ]_vars
\* A resolve found the entry file of its row missing, searched live and
\* appended a second row: the record of the first row is still there.
C27_Witness ==
    /\ last.kind = "resolve" /\ last.why = "file_missing" /\ last.added
    /\ ntotal(faiss_index) = 2 /\ next_faiss_id = 2
    /\ last.nn = 0 /\ 0 \in DOMAIN index_id_to_data

\* C29: an entry file that cannot be parsed.  When the nearest neighbour of
\* a resolve scores at or above the threshold and has its record, and the
\* entry file of that record exists but cannot be parsed, the lookup reports
\* a miss, the resolve makes one live search and returns its payload, and
\* the vectors and the records the cache held before the call are unchanged.
C29_UnparseableEntryFile ==
    [][ LET mem == load_faiss_cache(Mem, Disk)
            file == entryFiles[mem.map[last'.nn][2]]
        IN ( /\ LookedUp /\ last'.why # "empty_index"
             /\ last'.top1 >= CACHE_SIMILARITY_THRESHOLD
             /\ last'.nn \in DOMAIN mem.map
             /\ file.state = "corrupt" )
           => ( /\ last'.why = "file_unreadable"
                /\ last'.path = "miss" /\ last'.live = 1
                /\ last'.score = -1
                /\ Body(last'.ret) \in LiveBodies
                /\ SubSeq(faiss_index'.vectors, 1, ntotal(mem.index))
                      = mem.index.vectors
                /\ \A k \in DOMAIN mem.map :
                      /\ k \in DOMAIN index_id_to_data'
                      /\ index_id_to_data'[k] = mem.map[k] ) ]_vars
\* A resolve whose row scored at the threshold or above found the entry file
\* unparseable and searched live; the record of the row is as it was.
C29_Witness ==
    /\ last.kind = "resolve" /\ last.why = "file_unreadable"
    /\ last.top1 >= CACHE_SIMILARITY_THRESHOLD
    /\ last.path = "miss" /\ last.live = 1
    /\ last.nn \in DOMAIN index_id_to_data
    /\ entryFiles[index_id_to_data[last.nn][2]].state = "corrupt"

\* C28: rows and records correspond.  In a cache built from an empty
\* directory by one call at a time, every row below the number of vectors
\* has a record, and the query of that record is the query whose embedding
\* (as returned, or normalised) is the vector of that row; so a hit returns
\* the payload stored for the query of the probe's nearest row.
C28_RowRecordCorrespondence ==
    faiss_index.loaded
        => \A r \in 1..ntotal(faiss_index) :
              /\ (r - 1) \in DOMAIN index_id_to_data
              /\ faiss_index.vectors[r]
                    \in { Embedding(index_id_to_data[r - 1][1]),
                          normalize_L2(Embedding(index_id_to_data[r - 1][1])) }

\* No thread is between its read of next_faiss_id and its increment.
NoAppendInFlight == \A t \in Threads : threads[t].pc \notin InAppend
\* As many records as vectors, and every row has the record of the query
\* whose vector it holds, with that query's entry file path.
RowsMatchRecords ==
    /\ Cardinality(DOMAIN index_id_to_data) = ntotal(faiss_index)
    /\ \A r \in 1..ntotal(faiss_index) :
          /\ (r - 1) \in DOMAIN index_id_to_data
          /\ faiss_index.vectors[r]
                \in { Embedding(index_id_to_data[r - 1][1]),
                      normalize_L2(Embedding(index_id_to_data[r - 1][1])) }
          /\ index_id_to_data[r - 1][2] = PathOf(index_id_to_data[r - 1][1])

\* C21: no guard against concurrent misses.  With two resolves in one
\* process that both miss, the rows and the records agree, once no append is
\* in flight, as long as no thread read next_faiss_id while the other was
\* between its own read and its increment; nothing in add_to_cache keeps a
\* thread from doing so, and the state of C21_Witness is reached.
C21_UnguardedAppend ==
    (faiss_index.loaded /\ NoAppendInFlight /\ \A t \in Threads : ~threads[t].raced)
        => RowsMatchRecords
\* Two appends interleaved and both finished: two vectors and one record,
\* and row 0, which holds the vector of one query, is mapped to the entry
\* file of another.
C21_Witness ==
    /\ \A t \in Threads : threads[t].pc = "idle"
    /\ \E t \in Threads : threads[t].raced
    /\ ntotal(faiss_index) = 2
    /\ Cardinality(DOMAIN index_id_to_data) = 1
    /\ 0 \in DOMAIN index_id_to_data
    /\ faiss_index.vectors[1] = Embedding(TextA)
    /\ index_id_to_data[0] = <<TextC, PathOf(TextC)>>

\* C30: the row ids of the legacy file.  In previous/streamlit_app.py, over
\* reruns of the script, the key under which a resolve records the row it
\* appends is greater than every key of the mapping, so that no record is
\* overwritten; and an append that found as many records as vectors, and
\* deleted no stale record, leaves as many records as vectors.
C30_LegacyRowIdsIncrease ==
    [][ (last'.kind = "resolve" /\ last'.added)
        => ( /\ \A k \in DOMAIN index_id_to_data : k < next_faiss_id
             /\ ( /\ last'.why # "file_missing"
                  /\ Cardinality(DOMAIN index_id_to_data) = ntotal(faiss_index) )
                => Cardinality(DOMAIN index_id_to_data') = ntotal(faiss_index') ) ]_vars

\* C31: the self-heal of the legacy file.  In previous/streamlit_app.py, a
\* resolve that starts with as many records as vectors, finds the entry file
\* of the nearest row missing, deletes the stale record, gets a successful
\* live result, appends the vector and the record and saves, ends with as
\* many records as vectors, and the pair of files it saved is accepted by
\* the next load_faiss_cache.
C31_LegacySelfHeal ==
    [][ ( /\ last'.kind = "resolve"
          /\ last'.why = "file_missing"
          /\ last'.added
          /\ last'.save = "ok"
          /\ Cardinality(DOMAIN index_id_to_data) = ntotal(faiss_index) )
        => ( /\ Cardinality(DOMAIN index_id_to_data') = ntotal(faiss_index')
             /\ legacy_load_faiss_cache(Disk').index = faiss_index' ) ]_vars

\* C32: the two copies of the cache coordinator.  Run side by side from the
\* same empty cache directory with the same calls, embedding results,
\* live-search results and file-system events, the modular implementation
\* and the legacy one end every call with the same decision (both hit or
\* neither), the same number of vectors, the same stored vectors and the
\* same mapping.  (The modular globals are read as its load leaves them,
\* since it loads on first use.)
C32_SideBySideEquivalent ==
    (last.kind = "resolve" /\ legacy.path # "none")
        => \A mem \in {load_faiss_cache(Mem, Disk)} :
              /\ (last.path = "hit") <=> (legacy.path = "hit")
              /\ ntotal(mem.index) = ntotal(legacy.mem.index)
              /\ mem.index.vectors = legacy.mem.index.vectors
              /\ mem.map = legacy.mem.map

\* C33: content addressing.  In every reachable state, each record
\* [original_query, storage_path] of the mapping in memory, and of the
\* mapping file once written whole, has storage_path equal to
\* CACHE_DIR/<sha1 of original_query>.json; so two records of the same
\* query text name the same entry file, whatever the row, the time and the
\* payload were.
C33_ContentAddressed ==
    /\ \A k \in DOMAIN index_id_to_data :
          index_id_to_data[k][2] =
              <<CACHE_DIR, <<"sha1", index_id_to_data[k][1]>>, ".json">>
    /\ mappingFile.state = "ok" =>
          \A s \in DOMAIN mappingFile.mapping :
              mappingFile.mapping[s][2] =
                  <<CACHE_DIR, <<"sha1", mappingFile.mapping[s][1]>>, ".json">>
    /\ \A j, k \in DOMAIN index_id_to_data :
          index_id_to_data[j][1] = index_id_to_data[k][1]
              => index_id_to_data[j][2] = index_id_to_data[k][2]

\* Two appends for the same query text: the second call, after the entry
\* file was deleted, has just appended row 1 for the query of row 0.
C33_Witness ==
    /\ last.kind = "resolve"
    /\ last.added
    /\ DOMAIN index_id_to_data = {0, 1}
    /\ index_id_to_data[0][1] = last.query
    /\ index_id_to_data[1] = <<last.query, PathOf(last.query)>>
    /\ mappingFile.state = "ok"
    /\ Cardinality(DOMAIN mappingFile.mapping) = 2

====
